---- MODULE Spec2Model ----
(***************************************************************************)
(* Poly420: a browser polyrhythm trainer (src/app/src/poly420/index.tsx).  *)
(* The model covers the transport refs, the lookahead scheduler on both    *)
(* engines, the React commit that follows each state change, the track     *)
(* list operations and the URL-hash codec.                                 *)
(*                                                                         *)
(* Units: instants and durations are integer milliseconds (the source      *)
(* works in seconds: 0.008 s is 8, 0.8 s is 800); a volume is a whole      *)
(* percent (the slider's step is 0.01); a gain is in 1/10000; a track id   *)
(* "track-n" is the number n; a string is a sequence of one-character      *)
(* strings.                                                                *)
(***************************************************************************)
EXTENDS Integers, Sequences, FiniteSets, TLC

(* ------------------------------------------------------------------ *)
(* Program constants                                                    *)
(* ------------------------------------------------------------------ *)
PitchTableSize == 8
DEFAULT_TEMPO == 30
DEFAULT_VOLUME == 75
MinTempo == 1
MaxTempo == 240
AnchorMargin == 8
scheduleAhead == 800
tickMs == 25
StaleTolerance == 200
Headroom == 3
ImmediateDelayMs == 4
NewTrackBeats == 2

\* display progress is kept in 1 / ProgressScale of a cycle; 0.0004 of a cycle
ProgressScale == 10000
CssEpsilon == 4

\* transportAnchorRef.current === null
NoAnchor == -1

\* A number that can carry a fraction (the tempo, the value of a number input)
\* is counted in halves: whole(30) is 30, whole(30) + 1 is 30.5
Denominator == 2
whole(n) == n * Denominator

Track(id, beats, pitch, vol, m, d) ==
  [id |-> id, beatsPerCycle |-> beats, pitchIndex |-> pitch, volume |-> vol,
   muted |-> m, deafened |-> d]

DEFAULT_TRACKS ==
  << Track(1, 4, 0, DEFAULT_VOLUME, FALSE, FALSE),
     Track(2, 3, 1, DEFAULT_VOLUME, FALSE, FALSE) >>

(* ------------------------------------------------------------------ *)
(* Bounds of the model                                                  *)
(* ------------------------------------------------------------------ *)
\* the latest instant the clock is advanced to
MaxTime == 450
\* user edits (tempo, track operations, theme) in one run of the player
MaxEdits == 1
\* user edits in one run of the editor alone
MaxUIEdits == 3
\* tracks the model lets addTrack grow the list to
MaxTracks == 4
\* clicks on the play button that start playback in one run
MaxStarts == 2

\* the clock when the page has finished mounting
StartTime == 100
\* the clock advances by a few tick periods or by a suspension gap
Steps == {4 * tickMs, 10 * tickMs}
\* tempo inputs of the player runs: 60/tempo is a whole number of ms
PlayTempoInputs == {whole(30), whole(240)}
\* numeric inputs typed in the editor runs
TempoInputs == {whole(0), whole(30), whole(30) + 1, whole(120), whole(500)}
BeatsInputs == {whole(0), whole(2) + 1}
\* the slider's values, in percent, and values outside its range
VolumeInputs == {0 - 50, 40, 150}

Min(a, b) == IF a < b THEN a ELSE b
Abs(x) == IF x < 0 THEN 0 - x ELSE x
Max(a, b) == IF a > b THEN a ELSE b
\* Math.round of a number counted in halves: the nearest whole, a half goes up
round(x) == (2 * x + Denominator) \div (2 * Denominator)

(* ------------------------------------------------------------------ *)
(* Strings                                                              *)
(* ------------------------------------------------------------------ *)
Digits == <<"0", "1", "2", "3", "4", "5", "6", "7", "8", "9">>
IsDigit(c) == \E d \in 1..10 : Digits[d] = c
DigitVal(c) == (CHOOSE d \in 1..10 : Digits[d] = c) - 1

startsWith(s, p) == Len(s) >= Len(p) /\ SubSeq(s, 1, Len(p)) = p
slice(s, n) == SubSeq(s, n + 1, Len(s))

RECURSIVE split(_, _)
split(s, sep) ==
  IF \A i \in 1..Len(s) : s[i] # sep
  THEN <<s>>
  ELSE LET i == CHOOSE k \in 1..Len(s) :
                  s[k] = sep /\ \A j \in 1..(k - 1) : s[j] # sep
       IN  <<SubSeq(s, 1, i - 1)>> \o split(SubSeq(s, i + 1, Len(s)), sep)

RECURSIVE join(_, _)
join(ss, sep) ==
  IF ss = <<>> THEN <<>>
  ELSE IF Len(ss) = 1 THEN ss[1]
  ELSE ss[1] \o sep \o join(Tail(ss), sep)

\* String(n) of a natural number
RECURSIVE numToString(_)
numToString(n) ==
  IF n < 10 THEN <<Digits[n + 1]>>
  ELSE numToString(n \div 10) \o <<Digits[(n % 10) + 1]>>

\* the value of a run of decimal digits
RECURSIVE DigitsValue(_)
DigitsValue(s) ==
  IF s = <<>> THEN 0
  ELSE 10 * DigitsValue(SubSeq(s, 1, Len(s) - 1)) + DigitVal(s[Len(s)])

AllDigits(s) == \A i \in 1..Len(s) : IsDigit(s[i])

\* String(x) of a non-negative number counted in halves
numberToString(x) ==
  numToString(x \div Denominator)
    \o (IF x % Denominator = 0 THEN <<>> ELSE <<".", "5">>)

\* Number(s) for the strings of the model, counted in halves: "" is 0, an
\* optionally signed run of digits, with or without the fraction .5, is its
\* value, anything else is NaN
Number(s) ==
  LET unsigned(u) ==
        IF u # <<>> /\ AllDigits(u) THEN [nan |-> FALSE, val |-> whole(DigitsValue(u))]
        ELSE IF Len(u) >= 2 /\ SubSeq(u, Len(u) - 1, Len(u)) = <<".", "5">>
                /\ AllDigits(SubSeq(u, 1, Len(u) - 2))
        THEN [nan |-> FALSE, val |-> whole(DigitsValue(SubSeq(u, 1, Len(u) - 2))) + 1]
        ELSE [nan |-> TRUE, val |-> 0]
      negated(n) == [nan |-> n.nan, val |-> 0 - n.val]
  IN  IF s = <<>> THEN [nan |-> FALSE, val |-> 0]
      ELSE IF s[1] = "-" THEN negated(unsigned(Tail(s)))
      ELSE unsigned(s)

\* how many digits s starts with
LeadingDigits(s) ==
  CHOOSE n \in 0..Len(s) :
    /\ \A j \in 1..n : IsDigit(s[j])
    /\ (n < Len(s) => ~IsDigit(s[n + 1]))

(* ------------------------------------------------------------------ *)
(* Track model and codec                                                *)
(* ------------------------------------------------------------------ *)
clampTempo(t) == Min(whole(MaxTempo), Max(whole(MinTempo), t))

tracksMatchDefault(ts) ==
  /\ Len(ts) = Len(DEFAULT_TRACKS)
  /\ \A i \in 1..Len(ts) :
       /\ ts[i].beatsPerCycle = DEFAULT_TRACKS[i].beatsPerCycle
       /\ ts[i].volume = DEFAULT_TRACKS[i].volume
       /\ ts[i].muted = DEFAULT_TRACKS[i].muted
       /\ ts[i].deafened = DEFAULT_TRACKS[i].deafened

\* a variant that leaves every pitchIndex as it is
keepPitch(ts) == ts

applyPitchOrder(ts) ==
  [i \in 1..Len(ts) |-> [ts[i] EXCEPT !.pitchIndex = (i - 1) % PitchTableSize]]

encodeTrack(t) ==
  numToString(t.beatsPerCycle)
    \o (IF t.volume # DEFAULT_VOLUME THEN <<"v">> \o numToString(t.volume) ELSE <<>>)
    \o (IF t.muted THEN <<"m">> ELSE <<>>)
    \o (IF t.deafened THEN <<"d">> ELSE <<>>)

\* a variant that writes the tempo even when it is the default
encodeStateAlwaysTempo(t, ts, dark) ==
  <<"#", "t", "=">> \o numberToString(t)

encodeState(t, ts, dark) ==
  LET themePiece == IF ~dark THEN << <<"t","h","e","m","e","=","l","i","g","h","t">> >>
                    ELSE <<>>
      tempoPiece == IF t # whole(DEFAULT_TEMPO)
                    THEN << <<"t","=">> \o numberToString(t) >>
                    ELSE <<>>
      trackPiece == IF ~tracksMatchDefault(ts)
                    THEN << <<"t","r","a","c","k","s","=">>
                            \o join([i \in 1..Len(ts) |-> encodeTrack(ts[i])], <<"|">>) >>
                    ELSE <<>>
      pieces == themePiece \o tempoPiece \o trackPiece
  IN  IF pieces = <<>> THEN <<>> ELSE <<"#">> \o join(pieces, <<";">>)

\* piece.match(/^(\d+)(v(\d+))?(m)?(d)?$/), group by group from the left
matchTrack(piece) ==
  LET end(beats, volRaw, m, d, rest) ==
        [ok |-> beats # <<>> /\ rest = <<>>, beats |-> beats, volRaw |-> volRaw,
         muteFlag |-> m, deafFlag |-> d]
      deafGroup(beats, volRaw, m, rest) ==
        IF rest # <<>> /\ rest[1] = "d" THEN end(beats, volRaw, m, TRUE, Tail(rest))
        ELSE end(beats, volRaw, m, FALSE, rest)
      muteGroup(beats, volRaw, rest) ==
        IF rest # <<>> /\ rest[1] = "m" THEN deafGroup(beats, volRaw, TRUE, Tail(rest))
        ELSE deafGroup(beats, volRaw, FALSE, rest)
      volumeDigits(beats, r, nv) == muteGroup(beats, SubSeq(r, 1, nv), slice(r, nv))
      volumeGroup(beats, rest) ==
        IF Len(rest) >= 2 /\ rest[1] = "v" /\ IsDigit(rest[2])
        THEN volumeDigits(beats, Tail(rest), LeadingDigits(Tail(rest)))
        ELSE muteGroup(beats, <<>>, rest)
      beatsGroup(n) == volumeGroup(SubSeq(piece, 1, n), slice(piece, n))
  IN  beatsGroup(LeadingDigits(piece))

\* one entry of the tracks field: ok is FALSE when the entry is dropped
parseTrack(piece, index) ==
  LET entry(m, beats, volumePercent) ==
        [ok |-> m.ok /\ beats >= 1,
         track |-> Track(index + 1, Max(1, beats), index % PitchTableSize,
                         Min(100, Max(0, volumePercent)), m.muteFlag, m.deafFlag)]
      matched(m) ==
        entry(m, DigitsValue(m.beats),
              IF m.volRaw # <<>> THEN DigitsValue(m.volRaw) ELSE DEFAULT_VOLUME)
  IN  matched(matchTrack(piece))

\* a variant that keeps the entries that did not parse
keepEveryEntry(s) == [i \in 1..Len(s) |-> s[i].track]

\* .filter(Boolean)
RECURSIVE filterNull(_)
filterNull(s) ==
  IF s = <<>> THEN <<>>
  ELSE IF ~s[1].ok THEN filterNull(Tail(s))
  ELSE <<s[1].track>> \o filterNull(Tail(s))

\* the parts.forEach loop: the fields as the last matching part leaves them
RECURSIVE parseParts(_, _)
parseParts(parts, acc) ==
  IF parts = <<>> THEN acc
  ELSE LET part == parts[1]
           num == Number(slice(part, 2))
           themeValue == slice(part, 6)
           next ==
             IF startsWith(part, <<"t","=">>)
             THEN [acc EXCEPT !.tempo =
                     clampTempo(IF num.nan \/ num.val = 0 THEN whole(DEFAULT_TEMPO)
                                ELSE num.val)]
             ELSE IF startsWith(part, <<"t","h","e","m","e","=">>)
             THEN (IF themeValue = <<"d","a","r","k">> THEN [acc EXCEPT !.darkMode = TRUE]
                   ELSE IF themeValue = <<"l","i","g","h","t">>
                        THEN [acc EXCEPT !.darkMode = FALSE]
                   ELSE acc)
             ELSE IF startsWith(part, <<"t","r","a","c","k","s","=">>)
             THEN [acc EXCEPT !.tracksPart = slice(part, 7)]
             ELSE acc
       IN  parseParts(Tail(parts), next)

\* parseState: the decoded state (valid is FALSE for the null result, which the
\* component replaces by the defaults) and the value the call leaves in the
\* module-level trackCounter
parseState(h, counter) ==
  LET entries(tracksPart) == split(tracksPart, "|")
      pieces(es) ==
        applyPitchOrder(filterNull([i \in 1..Len(es) |-> parseTrack(es[i], i - 1)]))
      decoded(f, trackPieces) ==
        IF f.tracksPart = <<>>
        THEN [valid |-> TRUE, tempo |-> f.tempo, tracks |-> DEFAULT_TRACKS,
              darkMode |-> f.darkMode, counter |-> Len(DEFAULT_TRACKS) + 1]
        ELSE IF trackPieces = <<>>
        THEN [valid |-> FALSE, tempo |-> whole(DEFAULT_TEMPO), tracks |-> DEFAULT_TRACKS,
              darkMode |-> TRUE, counter |-> counter]
        ELSE [valid |-> TRUE, tempo |-> f.tempo, tracks |-> trackPieces,
              darkMode |-> f.darkMode, counter |-> Len(trackPieces) + 1]
      fields(f) == decoded(f, pieces(entries(f.tracksPart)))
      body(raw) ==
        IF raw = <<>>
        THEN [valid |-> TRUE, tempo |-> whole(DEFAULT_TEMPO), tracks |-> DEFAULT_TRACKS,
              darkMode |-> TRUE, counter |-> counter]
        ELSE fields(parseParts(split(raw, ";"),
                               [tempo |-> whole(DEFAULT_TEMPO), darkMode |-> TRUE,
                                tracksPart |-> <<>>]))
  IN  body(IF startsWith(h, <<"#">>) THEN slice(h, 1) ELSE h)

(* ------------------------------------------------------------------ *)
(* Audibility resolver                                                  *)
(* ------------------------------------------------------------------ *)
\* the ids of the tracks that are not gated out
activeIds(ts) ==
  LET focused == {i \in 1..Len(ts) : ts[i].deafened}
      base == IF focused # {} THEN focused ELSE 1..Len(ts)
  IN  {ts[i].id : i \in {j \in base : ~ts[j].muted}}

\* every track, with volume 0 when it is gated out
audibleTracks(ts) ==
  [i \in 1..Len(ts) |->
     [ts[i] EXCEPT !.volume = IF ts[i].id \in activeIds(ts) THEN ts[i].volume ELSE 0]]

\* the older variant of the resolver: the gated-out tracks are removed
RECURSIVE keepUnmuted(_)
keepUnmuted(ts) ==
  IF ts = <<>> THEN <<>>
  ELSE IF ts[1].muted THEN keepUnmuted(Tail(ts))
  ELSE <<ts[1]>> \o keepUnmuted(Tail(ts))

RECURSIVE keepDeafened(_)
keepDeafened(ts) ==
  IF ts = <<>> THEN <<>>
  ELSE IF ts[1].deafened THEN <<ts[1]>> \o keepDeafened(Tail(ts))
  ELSE keepDeafened(Tail(ts))

audibleTracksFiltered(ts) ==
  LET focused == keepDeafened(ts)
  IN  keepUnmuted(IF Len(focused) > 0 THEN focused ELSE ts)

(* ------------------------------------------------------------------ *)
(* State                                                                *)
(* ------------------------------------------------------------------ *)
VARIABLES
  \* React state, the address bar and the module-level id counter
  tempo, tracks, darkMode, playing, hash, trackCounter,
  \* the engine chosen once per session
  useHtmlAudioEngine,
  \* refs of the component
  playingRef, transportAnchorRef, startTimeRef, nextCycleRef, scheduledUntilRef,
  restartTransportRef, cycleDurationRef, audibleTracksRef, trackGainsRef,
  pendingHtmlTimersRef, audioContextRef, keepAliveRef,
  \* the scheduler effect: its interval and its cancelled flag
  interval, cancelled,
  \* the host: the clock, the timer table, the clicks queued in the audio
  \* graph, togglePlay calls suspended at an await, and the resume() the timing
  \* effect is waiting for
  now, timers, clicks, inflight, ctxResuming,
  \* observation: the last operation, the events it handed to the engine,
  \* the events that sounded in it, the (cycle, track, beat) triples handed over
  \* since the playback segment began and those handed over more than once,
  \* the value of nextCycleRef when the last tick began, whether stopAudioHard
  \* has run with no togglePlay completing since, and the count of user edits
  lastOp, batch, sounded, dispatched, redispatched, cycleBeforeTick, stopped, edits,
  \* observation: the clicks on the play button that began a start, and the
  \* timers the last operation cancelled
  starts, cleared,
  \* observation: window.location.hash when the page was opened
  loadedHash,
  \* observation: the tempo was changed while playing and schedule has not
  \* derived the transport since
  splice,
  \* the display: the progress last written to --cycle-progress, the snapBeats
  \* state (its reset is requested for the next animation frame while it is
  \* true), and whether the progress loop has a frame requested
  lastCssProgressRef, snapBeats, frame,
  \* the rebuild-on-change variants: which variant of the scheduler effect the
  \* page runs ("gain" is the one that keeps its scheduler across changes), and
  \* AudioContext.currentTime of the context those variants schedule against
  variant, currentTime

vars ==
  << tempo, tracks, darkMode, playing, hash, trackCounter, useHtmlAudioEngine,
     playingRef, transportAnchorRef, startTimeRef, nextCycleRef, scheduledUntilRef,
     restartTransportRef, cycleDurationRef, audibleTracksRef, trackGainsRef,
     pendingHtmlTimersRef, audioContextRef, keepAliveRef, interval, cancelled,
     now, timers, clicks, inflight, ctxResuming,
     lastOp, batch, sounded, dispatched, redispatched, cycleBeforeTick, stopped,
     edits, starts, cleared, loadedHash, splice,
     lastCssProgressRef, snapBeats, frame, variant, currentTime >>

\* the state as one record, so that a handler is a composition of its calls
Get ==
  [tempo |-> tempo, tracks |-> tracks, darkMode |-> darkMode, playing |-> playing,
   hash |-> hash, trackCounter |-> trackCounter,
   useHtmlAudioEngine |-> useHtmlAudioEngine,
   playingRef |-> playingRef, transportAnchorRef |-> transportAnchorRef,
   startTimeRef |-> startTimeRef, nextCycleRef |-> nextCycleRef,
   scheduledUntilRef |-> scheduledUntilRef,
   restartTransportRef |-> restartTransportRef,
   cycleDurationRef |-> cycleDurationRef, audibleTracksRef |-> audibleTracksRef,
   trackGainsRef |-> trackGainsRef, pendingHtmlTimersRef |-> pendingHtmlTimersRef,
   audioContextRef |-> audioContextRef, keepAliveRef |-> keepAliveRef,
   interval |-> interval, cancelled |-> cancelled,
   now |-> now, timers |-> timers, clicks |-> clicks,
   inflight |-> inflight, ctxResuming |-> ctxResuming,
   lastOp |-> lastOp, batch |-> batch, sounded |-> sounded,
   dispatched |-> dispatched, redispatched |-> redispatched,
   cycleBeforeTick |-> cycleBeforeTick, stopped |-> stopped, edits |-> edits,
   starts |-> starts, cleared |-> cleared, loadedHash |-> loadedHash,
   splice |-> splice, lastCssProgressRef |-> lastCssProgressRef,
   snapBeats |-> snapBeats, frame |-> frame,
   variant |-> variant, currentTime |-> currentTime]

Put(s) ==
  /\ tempo' = s.tempo
  /\ tracks' = s.tracks
  /\ darkMode' = s.darkMode
  /\ playing' = s.playing
  /\ hash' = s.hash
  /\ trackCounter' = s.trackCounter
  /\ useHtmlAudioEngine' = s.useHtmlAudioEngine
  /\ playingRef' = s.playingRef
  /\ transportAnchorRef' = s.transportAnchorRef
  /\ startTimeRef' = s.startTimeRef
  /\ nextCycleRef' = s.nextCycleRef
  /\ scheduledUntilRef' = s.scheduledUntilRef
  /\ restartTransportRef' = s.restartTransportRef
  /\ cycleDurationRef' = s.cycleDurationRef
  /\ audibleTracksRef' = s.audibleTracksRef
  /\ trackGainsRef' = s.trackGainsRef
  /\ pendingHtmlTimersRef' = s.pendingHtmlTimersRef
  /\ audioContextRef' = s.audioContextRef
  /\ keepAliveRef' = s.keepAliveRef
  /\ interval' = s.interval
  /\ cancelled' = s.cancelled
  /\ now' = s.now
  /\ timers' = s.timers
  /\ clicks' = s.clicks
  /\ inflight' = s.inflight
  /\ ctxResuming' = s.ctxResuming
  /\ lastOp' = s.lastOp
  /\ batch' = s.batch
  /\ sounded' = s.sounded
  /\ dispatched' = s.dispatched
  /\ redispatched' = s.redispatched
  /\ cycleBeforeTick' = s.cycleBeforeTick
  /\ stopped' = s.stopped
  /\ edits' = s.edits
  /\ starts' = s.starts
  /\ cleared' = s.cleared
  /\ loadedHash' = s.loadedHash
  /\ splice' = s.splice
  /\ lastCssProgressRef' = s.lastCssProgressRef
  /\ snapBeats' = s.snapBeats
  /\ frame' = s.frame
  /\ variant' = s.variant
  /\ currentTime' = s.currentTime

\* cycleDuration = 60 / tempo, in ms
cycleDuration(t) == whole(60000) \div t

NoGains == [id \in {} |-> 0]
Range(f) == {f[x] : x \in DOMAIN f}

\* an operation begins: what the previous one handed over and sounded is past
Begin(s, op) ==
  [s EXCEPT !.lastOp = op, !.batch = <<>>, !.sounded = {}, !.cleared = 0]

\* a playback segment begins or ends: the record of its triples starts afresh
NewSegment(s) ==
  [s EXCEPT !.dispatched = {}, !.redispatched = {}, !.splice = FALSE]

(* ------------------------------------------------------------------ *)
(* Teardown                                                             *)
(* ------------------------------------------------------------------ *)
\* a variant that drops the handles without clearTimeout
forgetPendingHtmlTimers(s) == [s EXCEPT !.pendingHtmlTimersRef = <<>>]

clearPendingHtmlTimers(s) ==
  [s EXCEPT !.timers = {t \in @ : t.handle \notin Range(s.pendingHtmlTimersRef)},
            !.pendingHtmlTimersRef = <<>>,
            !.cleared = @ + Cardinality({t \in s.timers :
                                          t.handle \in Range(s.pendingHtmlTimersRef)})]

\* every gain node is disconnected, which silences the clicks routed through it
resetTrackGains(s) == [s EXCEPT !.trackGainsRef = NoGains, !.clicks = {}]

\* ctx.close(): what is queued in the graph never sounds, a resume() that is
\* still awaited is rejected
closeContext(s) ==
  [s EXCEPT !.audioContextRef = "none", !.clicks = {}, !.ctxResuming = FALSE]

\* a variant that leaves the anchor and the realign flag as they are
stopAudioHardKeepsAnchor(s) ==
  LET s1 == resetTrackGains(clearPendingHtmlTimers([s EXCEPT !.playing = FALSE]))
      s2 == [s1 EXCEPT !.keepAliveRef = FALSE,
                       !.startTimeRef = 0,
                       !.nextCycleRef = 0,
                       !.scheduledUntilRef = 0]
  IN  closeContext(s2)

stopAudioHard(s) ==
  LET s1 == resetTrackGains(clearPendingHtmlTimers([s EXCEPT !.playing = FALSE]))
      s2 == [s1 EXCEPT !.keepAliveRef = FALSE,
                       !.transportAnchorRef = NoAnchor,
                       !.startTimeRef = 0,
                       !.nextCycleRef = 0,
                       !.scheduledUntilRef = 0,
                       !.restartTransportRef = FALSE]
  IN  closeContext(s2)

(* ------------------------------------------------------------------ *)
(* Beat events                                                          *)
(* ------------------------------------------------------------------ *)
\* the beats of one track in one cycle, in beat order; the instant of a beat
\* is cycleStart + cycleDur * beat / beatsPerCycle, kept as num / den
trackBeats(t, pos, c, cycleStart, cycleDur) ==
  [k \in 1..t.beatsPerCycle |->
     [cycle |-> c, pos |-> pos, id |-> t.id, beat |-> k - 1, accent |-> (k = 1),
      num |-> cycleStart * t.beatsPerCycle + cycleDur * (k - 1),
      den |-> t.beatsPerCycle]]

\* tracksNow.forEach: track by track
RECURSIVE cycleBeats(_, _, _, _, _)
cycleBeats(ts, pos, c, cycleStart, cycleDur) ==
  IF pos > Len(ts) THEN <<>>
  ELSE trackBeats(ts[pos], pos, c, cycleStart, cycleDur)
         \o cycleBeats(ts, pos + 1, c, cycleStart, cycleDur)

Triples(events) == {<<events[i].cycle, events[i].pos, events[i].beat>> : i \in 1..Len(events)}

\* the events are handed to the engine
noteDispatch(s, events) ==
  [s EXCEPT !.batch = @ \o events,
            !.dispatched = @ \cup Triples(events),
            !.redispatched = @ \cup (Triples(events) \cap s.dispatched)]

\* Map.get(id) of a Map built from the track array: the last entry with the id
lastWithId(ts, id) ==
  ts[CHOOSE i \in 1..Len(ts) : ts[i].id = id /\ \A j \in (i + 1)..Len(ts) : ts[j].id # id]

hasId(ts, id) == \E i \in 1..Len(ts) : ts[i].id = id

(* ------------------------------------------------------------------ *)
(* Fallback engine                                                      *)
(* ------------------------------------------------------------------ *)
\* Math.round(beatMoment * 1000)
beatKey(e) == (2 * e.num + e.den) \div (2 * e.den)

\* audio.volume of a hit, from the volume the resolver left the track
htmlGain(volume, accent) ==
  LET loudness == Max(0, Min(11000, volume * 130))
  IN  Min(10000, IF accent THEN (loudness * 105) \div 100 ELSE loudness)

playNow(s, hits) ==
  [s EXCEPT !.sounded = @ \cup
     {[cycle |-> hits[i].cycle, pos |-> hits[i].pos, id |-> hits[i].id,
       beat |-> hits[i].beat,
       gain |-> htmlGain(lastWithId(s.audibleTracksRef, hits[i].id).volume,
                         hits[i].accent)] :
        i \in {j \in 1..Len(hits) : hasId(s.audibleTracksRef, hits[j].id)}}]

\* window.setTimeout returns a handle that no timer and no stored reference
\* carries: the least such number stands for it
setTimeoutHandle(s) ==
  LET used == {t.handle : t \in s.timers} \cup Range(s.pendingHtmlTimersRef)
  IN  CHOOSE h \in 1..(Cardinality(used) + 1) :
        h \notin used /\ \A g \in 1..(h - 1) : g \in used

playSampleWithHtmlAudio(s, when, hits) ==
  LET delayMs == Max(0, when - s.now)
      timer == setTimeoutHandle(s)
  IN  IF hits = <<>> THEN s
      ELSE IF delayMs <= ImmediateDelayMs THEN playNow(s, hits)
      ELSE [s EXCEPT !.timers = @ \cup {[handle |-> timer,
                                         due |-> s.now + delayMs, hits |-> hits]},
                     !.pendingHtmlTimersRef = Append(@, timer)]

\* the keys of hitsByBeat in insertion order
RECURSIVE beatKeys(_, _)
beatKeys(events, seen) ==
  IF events = <<>> THEN <<>>
  ELSE IF beatKey(events[1]) \in seen THEN beatKeys(Tail(events), seen)
  ELSE <<beatKey(events[1])>> \o beatKeys(Tail(events), seen \cup {beatKey(events[1])})

\* hitsByBeat.forEach: the buckets are handed over in the order of their keys
RECURSIVE playBuckets(_, _, _)
playBuckets(s, events, keys) ==
  IF keys = <<>> THEN s
  ELSE LET inBucket(e) == beatKey(e) = keys[1]
           hand(hits) == noteDispatch(playSampleWithHtmlAudio(s, keys[1], hits), hits)
       IN  playBuckets(hand(SelectSeq(events, inBucket)), events, Tail(keys))

dispatchHtmlCycle(s, c, cycleStart) ==
  LET events == cycleBeats(s.audibleTracksRef, 1, c, cycleStart, s.cycleDurationRef)
  IN  playBuckets(s, events, beatKeys(events, {}))

\* a variant of the realign branch that keeps the cycle index it finds
realignKeepsCycle(s) ==
  [s EXCEPT !.startTimeRef = s.transportAnchorRef,
            !.restartTransportRef = FALSE,
            !.splice = FALSE]

\* the realign branch of schedule
realign(s) ==
  LET anchor == s.transportAnchorRef
      elapsed == Max(0, s.now - anchor)
      nextCycle == Max(0, elapsed \div s.cycleDurationRef)
  IN  [s EXCEPT !.startTimeRef = anchor,
                !.nextCycleRef = nextCycle,
                !.scheduledUntilRef = anchor + nextCycle * s.cycleDurationRef,
                !.restartTransportRef = FALSE,
                !.splice = FALSE]

setAnchorIfNull(s) ==
  IF s.transportAnchorRef = NoAnchor
  THEN [s EXCEPT !.transportAnchorRef = s.now + AnchorMargin]
  ELSE s

RECURSIVE htmlLoop(_, _)
htmlLoop(s, until) ==
  IF ~(s.scheduledUntilRef < until) THEN s
  ELSE LET cycleIndex == s.nextCycleRef
           cycleStart == s.startTimeRef + cycleIndex * s.cycleDurationRef
       IN  IF cycleStart < s.now - StaleTolerance
           THEN clearPendingHtmlTimers([s EXCEPT !.restartTransportRef = TRUE])
           ELSE htmlLoop([dispatchHtmlCycle(s, cycleIndex, cycleStart) EXCEPT
                            !.nextCycleRef = @ + 1,
                            !.scheduledUntilRef = cycleStart + s.cycleDurationRef],
                         until)

scheduleHtml(s) ==
  LET s1 == setAnchorIfNull(s)
      s2 == IF s1.restartTransportRef \/ s1.startTimeRef = 0
            THEN realign(clearPendingHtmlTimers(s1))
            ELSE s1
  IN  htmlLoop(s2, s.now + scheduleAhead)

(* ------------------------------------------------------------------ *)
(* Precision engine                                                     *)
(* ------------------------------------------------------------------ *)
\* Math.max(0, Math.min(1.1, track.volume * 1.22 + 0.04))
preamped(volume) == Max(0, Min(11000, volume * 122 + 400))

\* a click sounds through the gain node of its track id
gainOf(s, id) == IF id \in DOMAIN s.trackGainsRef THEN s.trackGainsRef[id] ELSE 0

\* the clicks whose instant has come sound, at the gain their node has then
soundDueClicks(s) ==
  LET due == {c \in s.clicks : c.num <= s.now * c.den}
  IN  [s EXCEPT !.clicks = @ \ due,
                !.sounded = @ \cup {[cycle |-> c.cycle, pos |-> c.pos, id |-> c.id,
                                     beat |-> c.beat, gain |-> gainOf(s, c.id)] :
                                    c \in due}]

dispatchWebCycle(s, c, cycleStartPerf) ==
  LET tracksNow == s.audibleTracksRef
      events == cycleBeats(tracksNow, 1, c, cycleStartPerf, s.cycleDurationRef)
      ids == {tracksNow[i].id : i \in 1..Len(tracksNow)}
      s1 == [s EXCEPT !.trackGainsRef =
               [id \in (DOMAIN s.trackGainsRef) \cup ids |->
                  IF id \in ids THEN preamped(lastWithId(tracksNow, id).volume)
                  ELSE s.trackGainsRef[id]],
               !.clicks = @ \cup Range(events)]
  IN  noteDispatch(s1, events)

\* a variant of the loop without the stale-cycle check
RECURSIVE webLoopNoStaleCheck(_, _)
webLoopNoStaleCheck(s, until) ==
  IF ~(s.scheduledUntilRef < until) THEN s
  ELSE LET cycleIndex == s.nextCycleRef
           cycleStartPerf == s.startTimeRef + cycleIndex * s.cycleDurationRef
       IN  webLoopNoStaleCheck(
             [dispatchWebCycle(s, cycleIndex, cycleStartPerf) EXCEPT
                !.nextCycleRef = @ + 1,
                !.scheduledUntilRef = cycleStartPerf + s.cycleDurationRef],
             until)

RECURSIVE webLoop(_, _)
webLoop(s, until) ==
  IF ~(s.scheduledUntilRef < until) THEN s
  ELSE LET cycleIndex == s.nextCycleRef
           cycleStartPerf == s.startTimeRef + cycleIndex * s.cycleDurationRef
       IN  IF cycleStartPerf < s.now - StaleTolerance
           THEN [s EXCEPT !.restartTransportRef = TRUE]
           ELSE webLoop([dispatchWebCycle(s, cycleIndex, cycleStartPerf) EXCEPT
                           !.nextCycleRef = @ + 1,
                           !.scheduledUntilRef = cycleStartPerf + s.cycleDurationRef],
                        until)

\* a variant of the precision branch without the context guard
scheduleWebAudioUnguarded(s) ==
  LET s1 == setAnchorIfNull(s)
      s2 == IF s1.restartTransportRef \/ s1.startTimeRef = 0 THEN realign(s1) ELSE s1
  IN  soundDueClicks(webLoop(s2, s.now + scheduleAhead))

scheduleWebAudio(s) ==
  IF s.audioContextRef # "running" THEN s
  ELSE LET s1 == setAnchorIfNull(s)
           s2 == IF s1.restartTransportRef \/ s1.startTimeRef = 0 THEN realign(s1) ELSE s1
       IN  soundDueClicks(webLoop(s2, s.now + scheduleAhead))

\* one run of the scheduler callback
schedule(s) ==
  IF s.cancelled THEN s
  ELSE IF s.useHtmlAudioEngine THEN scheduleHtml(s)
  ELSE scheduleWebAudio(s)

\* the scheduler as the scheduler effect finds it on a start: the transport
\* refs at the values they are created with, beside the anchor
freshScheduler(s) ==
  [s EXCEPT !.startTimeRef = 0,
            !.nextCycleRef = 0,
            !.scheduledUntilRef = 0,
            !.restartTransportRef = FALSE]

(* ------------------------------------------------------------------ *)
(* Render and effects                                                   *)
(* ------------------------------------------------------------------ *)
\* the component body runs parseState(window.location.hash) on every render
render(s) == [s EXCEPT !.trackCounter = parseState(s.hash, s.trackCounter).counter]

\* cleanup of the scheduler effect
schedulerCleanup(s) == [s EXCEPT !.cancelled = TRUE, !.interval = FALSE]

\* the scheduler effect body: a run of schedule, then the interval
schedulerSetup(s) ==
  [schedule([s EXCEPT !.cancelled = FALSE]) EXCEPT !.interval = TRUE]

\* setCycleProgressCss, with progress in 1 / ProgressScale of a cycle
setCycleProgressCss(s, value) ==
  LET clamped == Max(0, Min(ProgressScale, value))
      prev == s.lastCssProgressRef
      wrapped == s.playingRef /\ clamped < prev
      s1 == IF wrapped THEN [s EXCEPT !.snapBeats = TRUE] ELSE s
  IN  IF Abs(clamped - prev) < CssEpsilon THEN s1
      ELSE [s1 EXCEPT !.lastCssProgressRef = clamped]

\* a variant of the phase without the modulo
positionUnwrapped(s) ==
  LET cycleDur == s.cycleDurationRef
      elapsed == Max(0, s.now - s.transportAnchorRef)
  IN  IF cycleDur > 0 THEN (elapsed * ProgressScale) \div cycleDur ELSE 0

\* the phase the progress loop derives: (elapsed % cycleDur) / cycleDur
position(s) ==
  LET cycleDur == s.cycleDurationRef
      elapsed == Max(0, s.now - s.transportAnchorRef)
  IN  IF cycleDur > 0 THEN ((elapsed % cycleDur) * ProgressScale) \div cycleDur ELSE 0

\* one run of the progress loop's update
update(s) ==
  IF ~s.playingRef THEN [setCycleProgressCss(s, 0) EXCEPT !.frame = FALSE]
  ELSE IF s.transportAnchorRef = NoAnchor \/ s.startTimeRef = 0
  THEN setCycleProgressCss(s, 0)
  ELSE setCycleProgressCss(s, position(s))

\* the callbacks of one animation frame, in the order they were requested:
\* the reset of snapBeats, then update; a change of snapBeats renders
animationFrame(s) ==
  LET s1 == [s EXCEPT !.snapBeats = FALSE]
      s2 == IF s.frame THEN update(s1) ELSE s1
  IN  IF s2.snapBeats # s.snapBeats THEN render(s2) ELSE s2

\* the progress effect: the cleanup of its last run, then its body
progressEffect(s) ==
  IF s.playing THEN [s EXCEPT !.frame = TRUE]
  ELSE setCycleProgressCss([s EXCEPT !.frame = FALSE], 0)

\* the commit of a render in which `playing` changed: the effect that copies
\* playing to playingRef, then the scheduler effect (the cleanup of its last
\* run if that run passed the guard, then its body), then the progress effect
commitPlaying(s) ==
  LET body(s2) == IF s2.playing THEN schedulerSetup(s2) ELSE s2
      cleanup(s1) == body(IF s.playingRef THEN schedulerCleanup(s1) ELSE s1)
  IN  progressEffect(cleanup([render(s) EXCEPT !.playingRef = s.playing]))

restartHtmlTransport(s) ==
  IF ~s.useHtmlAudioEngine \/ ~s.playingRef THEN s
  ELSE LET s1 == clearPendingHtmlTimers(s)
           anchor == IF s1.transportAnchorRef = NoAnchor THEN s1.now + AnchorMargin
                     ELSE s1.transportAnchorRef
           nextCycle == Max(0, (s1.now - anchor) \div s1.cycleDurationRef)
       IN  [s1 EXCEPT !.transportAnchorRef = anchor,
                      !.startTimeRef = anchor,
                      !.nextCycleRef = nextCycle,
                      !.scheduledUntilRef = anchor + nextCycle * s1.cycleDurationRef,
                      !.restartTransportRef = TRUE]

\* the effect that keeps the per-track gain nodes in step with audibleTracks
syncTrackGains(s) ==
  LET first(aud, id) ==
        aud[CHOOSE i \in 1..Len(aud) :
              aud[i].id = id /\ \A j \in 1..(i - 1) : aud[j].id # id]
      sync(aud, kept, ids) ==
        [s EXCEPT !.trackGainsRef =
           [id \in kept \cup ids |->
              IF id \in kept THEN lastWithId(aud, id).volume * 100
              ELSE first(aud, id).volume * 100]]
      with(aud) == sync(aud, {id \in DOMAIN s.trackGainsRef : hasId(aud, id)},
                        {aud[i].id : i \in 1..Len(aud)})
  IN  IF ~s.playingRef \/ s.useHtmlAudioEngine \/ s.audioContextRef = "none" THEN s
      ELSE with(audibleTracks(s.tracks))

\* a variant of the effect that closes the audio but leaves the transport refs
timingEffectKeepsTransport(s) ==
  IF ~s.playingRef THEN s
  ELSE IF s.useHtmlAudioEngine THEN clearPendingHtmlTimers(NewSegment(s))
  ELSE [closeContext(resetTrackGains(NewSegment(s))) EXCEPT
          !.keepAliveRef = FALSE,
          !.audioContextRef = "suspended",
          !.ctxResuming = TRUE]

\* a variant of the effect without the early return on playingRef
timingEffectUnguarded(s) ==
  LET s1 == NewSegment([s EXCEPT !.restartTransportRef = TRUE,
                                 !.startTimeRef = 0,
                                 !.nextCycleRef = 0,
                                 !.scheduledUntilRef = 0])
  IN  IF s.useHtmlAudioEngine THEN clearPendingHtmlTimers(s1)
      ELSE [closeContext(resetTrackGains(s1)) EXCEPT
              !.keepAliveRef = FALSE,
              !.audioContextRef = "suspended",
              !.ctxResuming = TRUE]

\* the effect keyed on timingSignature
timingEffect(s) ==
  IF ~s.playingRef THEN s
  ELSE LET s1 == NewSegment([s EXCEPT !.restartTransportRef = TRUE,
                                      !.startTimeRef = 0,
                                      !.nextCycleRef = 0,
                                      !.scheduledUntilRef = 0])
       IN  IF s.useHtmlAudioEngine THEN clearPendingHtmlTimers(s1)
           ELSE [closeContext(resetTrackGains(s1)) EXCEPT
                   !.keepAliveRef = FALSE,
                   !.audioContextRef = "suspended",
                   !.ctxResuming = TRUE]

timingSignature(t, ts) ==
  <<t, [i \in 1..Len(ts) |-> <<ts[i].id, ts[i].beatsPerCycle>>]>>

audibleMembershipSignature(ts) == [i \in 1..Len(ts) |-> audibleTracks(ts)[i].id]

\* a click or an input event set tempo, tracks or darkMode: the render and the
\* effects whose dependencies changed, in the order they are declared (tracksSet:
\* setTracks stored a new array, so audibleTracks is a new array too).  The
\* render of a discrete event is flushed, with its effects, before the handler's
\* task ends
commitEdit(old, s, tracksSet) ==
  LET hashEffect(s4) ==
        [s4 EXCEPT !.hash = encodeState(s.tempo, s.tracks, s.darkMode),
                   !.edits = @ + 1]
      timing(s3) ==
        hashEffect(IF timingSignature(s.tempo, s.tracks)
                        # timingSignature(old.tempo, old.tracks)
                   THEN timingEffect(s3) ELSE s3)
      gains(s2) == timing(IF tracksSet THEN syncTrackGains(s2) ELSE s2)
      membership(s1) ==
        gains(IF audibleMembershipSignature(s.tracks)
                   # audibleMembershipSignature(old.tracks)
              THEN restartHtmlTransport(s1) ELSE s1)
  IN  membership([render(s) EXCEPT !.cycleDurationRef = cycleDuration(s.tempo),
                                   !.audibleTracksRef = audibleTracks(s.tracks)])

(* ------------------------------------------------------------------ *)
(* togglePlay                                                           *)
(* ------------------------------------------------------------------ *)
\* ensureAudioRunningInGesture: outcome "ok", "ctorThrows" (new AudioCtor throws)
\* or "resumeRejects" (ctx.resume() is rejected)
possibleOutcomes(s) ==
  {"ok"} \cup (IF s.audioContextRef = "none" THEN {"ctorThrows"} ELSE {})
         \cup (IF s.audioContextRef # "running" THEN {"resumeRejects"} ELSE {})

ensureAudioRunningInGesture(s, outcome) ==
  IF outcome = "ctorThrows" THEN s
  ELSE IF outcome = "resumeRejects" THEN [s EXCEPT !.audioContextRef = "suspended"]
  ELSE [s EXCEPT !.audioContextRef = "running", !.keepAliveRef = TRUE,
                 !.ctxResuming = FALSE]

\* the rest of togglePlay on the fallback engine, after the warm-up
startHtml(s) ==
  LET cycleDur == s.cycleDurationRef
      startAt == IF s.transportAnchorRef = NoAnchor THEN s.now + AnchorMargin
                 ELSE s.transportAnchorRef
      nextCycle == Max(0, (s.now - startAt) \div cycleDur)
      firstCycleStart == startAt + nextCycle * cycleDur + Headroom
      s1 == NewSegment([s EXCEPT !.transportAnchorRef = startAt,
                                 !.startTimeRef = startAt,
                                 !.nextCycleRef = nextCycle,
                                 !.scheduledUntilRef = startAt + nextCycle * cycleDur,
                                 !.restartTransportRef = FALSE])
  IN  [dispatchHtmlCycle(s1, nextCycle, firstCycleStart) EXCEPT
         !.nextCycleRef = @ + 1,
         !.scheduledUntilRef = firstCycleStart + cycleDur,
         !.playing = TRUE]

\* the try block of togglePlay on the precision engine, once the context runs
startWebAudio(s) ==
  LET anchor == IF s.transportAnchorRef = NoAnchor THEN s.now + AnchorMargin
                ELSE s.transportAnchorRef
      nextCycle == Max(0, (s.now - anchor) \div s.cycleDurationRef)
  IN  NewSegment([s EXCEPT !.transportAnchorRef = anchor,
                           !.startTimeRef = anchor,
                           !.nextCycleRef = nextCycle,
                           !.scheduledUntilRef = anchor + nextCycle * s.cycleDurationRef,
                           !.restartTransportRef = TRUE,
                           !.playing = TRUE])

\* a variant of the catch block that only logs
startFailedOnlyLogs(s) == s

\* the catch block of togglePlay on the precision engine
startFailed(s) == NewSegment(stopAudioHard(s))

\* togglePlay from its last await to its end
finishStart(s, outcome) ==
  LET s1 == ensureAudioRunningInGesture(s, outcome)
  IN  IF s.useHtmlAudioEngine THEN startHtml(s1)
      ELSE IF outcome = "ok" THEN startWebAudio(s1)
      ELSE startFailed(s1)

(* ------------------------------------------------------------------ *)
(* Track list operations                                                *)
(* ------------------------------------------------------------------ *)
updateTempo(s, next) == [s EXCEPT !.tempo = clampTempo(next)]

addTrack(s) ==
  LET newTrack == Track(s.trackCounter, NewTrackBeats, Len(s.tracks) % PitchTableSize,
                        DEFAULT_VOLUME, FALSE, FALSE)
  IN  [s EXCEPT !.trackCounter = @ + 1,
                !.tracks = applyPitchOrder(Append(s.tracks, newTrack))]

removeTrack(s, id) ==
  LET keep(t) == t.id # id
  IN  [s EXCEPT !.tracks = applyPitchOrder(SelectSeq(s.tracks, keep))]

\* a variant that stores the whole part of the input as it is
updateTrackBeatsUnclamped(s, id, beats) ==
  [s EXCEPT !.tracks = applyPitchOrder(
     [i \in 1..Len(s.tracks) |->
        IF s.tracks[i].id = id
        THEN [s.tracks[i] EXCEPT !.beatsPerCycle = beats \div Denominator]
        ELSE s.tracks[i]])]

updateTrackBeats(s, id, beats) ==
  LET safeBeats == Max(1, round(beats))
  IN  [s EXCEPT !.tracks = applyPitchOrder(
         [i \in 1..Len(s.tracks) |->
            IF s.tracks[i].id = id
            THEN [s.tracks[i] EXCEPT !.beatsPerCycle = safeBeats]
            ELSE s.tracks[i]])]

updateTrackVolume(s, id, volume) ==
  LET safeVolume == Min(100, Max(0, volume))
  IN  [s EXCEPT !.tracks = applyPitchOrder(
         [i \in 1..Len(s.tracks) |->
            IF s.tracks[i].id = id
            THEN [s.tracks[i] EXCEPT !.volume = safeVolume]
            ELSE s.tracks[i]])]

\* a variant of toggleMute that flips muted and leaves deafened as it was
toggleMuteKeepsDeafened(s, id) ==
  [s EXCEPT !.tracks = applyPitchOrder(
     [i \in 1..Len(s.tracks) |->
        IF s.tracks[i].id = id
        THEN [s.tracks[i] EXCEPT !.muted = ~s.tracks[i].muted]
        ELSE s.tracks[i]])]

toggleMute(s, id) ==
  [s EXCEPT !.tracks = applyPitchOrder(
     [i \in 1..Len(s.tracks) |->
        IF s.tracks[i].id = id
        THEN [s.tracks[i] EXCEPT !.muted = ~s.tracks[i].muted, !.deafened = FALSE]
        ELSE s.tracks[i]])]

toggleDeafen(s, id) ==
  [s EXCEPT !.tracks = applyPitchOrder(
     [i \in 1..Len(s.tracks) |->
        IF s.tracks[i].id = id
        THEN [s.tracks[i] EXCEPT !.deafened = ~s.tracks[i].deafened, !.muted = FALSE]
        ELSE s.tracks[i]])]

toggleDarkMode(s) == [s EXCEPT !.darkMode = ~s.darkMode]

(* ------------------------------------------------------------------ *)
(* The page after it has mounted                                        *)
(* ------------------------------------------------------------------ *)
\* the module-level trackCounter before the first render
InitialTrackCounter == Len(DEFAULT_TRACKS) + 1

mount(link, engine) ==
  LET page(t, ts, dark, counter) ==
        [tempo |-> t, tracks |-> ts, darkMode |-> dark, playing |-> FALSE,
         hash |-> encodeState(t, ts, dark), trackCounter |-> counter,
         useHtmlAudioEngine |-> engine,
         playingRef |-> FALSE, transportAnchorRef |-> NoAnchor,
         startTimeRef |-> 0, nextCycleRef |-> 0, scheduledUntilRef |-> 0,
         restartTransportRef |-> FALSE,
         cycleDurationRef |-> cycleDuration(t), audibleTracksRef |-> audibleTracks(ts),
         trackGainsRef |-> NoGains, pendingHtmlTimersRef |-> <<>>,
         audioContextRef |-> "none", keepAliveRef |-> FALSE,
         interval |-> FALSE, cancelled |-> FALSE,
         now |-> StartTime, timers |-> {}, clicks |-> {},
         inflight |-> 0, ctxResuming |-> FALSE,
         lastOp |-> "mount", batch |-> <<>>, sounded |-> {},
         dispatched |-> {}, redispatched |-> {},
         cycleBeforeTick |-> 0, stopped |-> FALSE, edits |-> 0, starts |-> 0,
         cleared |-> 0, loadedHash |-> link, splice |-> FALSE,
         lastCssProgressRef |-> 0, snapBeats |-> FALSE, frame |-> FALSE,
         variant |-> "gain", currentTime |-> 0]
      from(initial) ==
        IF initial.valid
        THEN page(initial.tempo, applyPitchOrder(initial.tracks), initial.darkMode,
                  initial.counter)
        ELSE page(whole(DEFAULT_TEMPO), applyPitchOrder(DEFAULT_TRACKS), TRUE,
                  initial.counter)
  IN  from(parseState(link, InitialTrackCounter))

\* the variables hold the state s
Holds(s) ==
  /\ tempo = s.tempo /\ tracks = s.tracks /\ darkMode = s.darkMode
  /\ playing = s.playing /\ hash = s.hash /\ trackCounter = s.trackCounter
  /\ useHtmlAudioEngine = s.useHtmlAudioEngine
  /\ playingRef = s.playingRef /\ transportAnchorRef = s.transportAnchorRef
  /\ startTimeRef = s.startTimeRef /\ nextCycleRef = s.nextCycleRef
  /\ scheduledUntilRef = s.scheduledUntilRef
  /\ restartTransportRef = s.restartTransportRef
  /\ cycleDurationRef = s.cycleDurationRef
  /\ audibleTracksRef = s.audibleTracksRef
  /\ trackGainsRef = s.trackGainsRef
  /\ pendingHtmlTimersRef = s.pendingHtmlTimersRef
  /\ audioContextRef = s.audioContextRef /\ keepAliveRef = s.keepAliveRef
  /\ interval = s.interval /\ cancelled = s.cancelled
  /\ now = s.now /\ timers = s.timers
  /\ clicks = s.clicks /\ inflight = s.inflight /\ ctxResuming = s.ctxResuming
  /\ lastOp = s.lastOp /\ batch = s.batch /\ sounded = s.sounded
  /\ dispatched = s.dispatched /\ redispatched = s.redispatched
  /\ cycleBeforeTick = s.cycleBeforeTick /\ stopped = s.stopped
  /\ edits = s.edits /\ starts = s.starts /\ cleared = s.cleared
  /\ loadedHash = s.loadedHash /\ splice = s.splice
  /\ lastCssProgressRef = s.lastCssProgressRef /\ snapBeats = s.snapBeats
  /\ frame = s.frame
  /\ variant = s.variant /\ currentTime = s.currentTime

InitFrom(link, engine) == Holds(mount(link, engine))

\* the page opened on its bare address, on either engine
Init == \E engine \in BOOLEAN : InitFrom(<<>>, engine)

(* ------------------------------------------------------------------ *)
(* The host                                                             *)
(* ------------------------------------------------------------------ *)
\* a variant of the handler that also drops the anchor
onVisibilityDropsAnchor(s) ==
  LET s1 == [s EXCEPT !.restartTransportRef = TRUE, !.transportAnchorRef = NoAnchor]
  IN  IF s.useHtmlAudioEngine THEN clearPendingHtmlTimers(s1) ELSE s1

onVisibility(s) ==
  LET s1 == [s EXCEPT !.restartTransportRef = TRUE]
  IN  IF s.useHtmlAudioEngine THEN clearPendingHtmlTimers(s1) ELSE s1

\* the timers that are due run their playNow, earliest first
RECURSIVE fireDueTimers(_)
fireDueTimers(s) ==
  LET due == {t \in s.timers : t.due <= s.now}
  IN  IF due = {} THEN s
      ELSE LET t == CHOOSE x \in due : \A y \in due : x.due <= y.due
           IN  fireDueTimers(playNow([s EXCEPT !.timers = @ \ {t}], t.hits))

advance(s, d) == soundDueClicks(fireDueTimers([s EXCEPT !.now = @ + d]))

\* the resume() awaited by the timing effect settles
resumeSettled(s, ok) ==
  IF ok THEN [s EXCEPT !.audioContextRef = "running", !.keepAliveRef = TRUE,
                       !.ctxResuming = FALSE]
  ELSE [s EXCEPT !.ctxResuming = FALSE]

(* ------------------------------------------------------------------ *)
(* Actions                                                              *)
(* ------------------------------------------------------------------ *)
\* a click on the play button while playingRef is false: togglePlay runs to
\* its first await
TogglePlayStart ==
  /\ ~playingRef
  /\ starts < MaxStarts
  /\ Put([Begin(Get, "togglePlay") EXCEPT !.inflight = @ + 1, !.starts = @ + 1])

\* a suspended togglePlay runs from its last await to its end
FinishStart ==
  /\ inflight > 0
  /\ \E outcome \in possibleOutcomes(Get) :
       LET failed == ~useHtmlAudioEngine /\ outcome # "ok"
       IN  Put([finishStart(Begin(Get, IF failed THEN "startFailed" ELSE "start"),
                            outcome)
                  EXCEPT !.inflight = @ - 1, !.stopped = failed])

\* a click on the play button while playingRef is true: stopAudioHard, and the
\* commit of playing = false before the click's task ends
TogglePlayStop ==
  /\ playingRef
  /\ Put([NewSegment(commitPlaying(stopAudioHard(Begin(Get, "stop"))))
            EXCEPT !.stopped = TRUE])

\* the commit of a setPlaying made after an await
Render ==
  /\ playing # playingRef
  /\ Put(commitPlaying(Begin(Get, "render")))

\* the interval fires
Tick ==
  /\ interval
  /\ Put([schedule(Begin(Get, "tick")) EXCEPT !.cycleBeforeTick = nextCycleRef])

\* an animation frame with a callback requested
Frame ==
  /\ frame \/ snapBeats
  /\ Put(animationFrame(Begin(Get, "frame")))

\* visibilitychange or pageshow
Visibility ==
  /\ interval
  /\ Put(onVisibility(Begin(Get, "visibility")))

Advance(d) ==
  /\ now + d <= MaxTime
  /\ Put(advance(Begin(Get, "advance"), d))

ResumeSettled(ok) ==
  /\ ctxResuming
  /\ Put(resumeSettled(Begin(Get, "resume"), ok))

UpdateTempo(next) ==
  /\ clampTempo(next) # tempo
  /\ Put([commitEdit(Get, updateTempo(Begin(Get, "updateTempo"), next), FALSE)
            EXCEPT !.splice = playingRef])

AddTrack ==
  Put(commitEdit(Get, addTrack(Begin(Get, "addTrack")), TRUE))

RemoveTrack(i) ==
  Put(commitEdit(Get, removeTrack(Begin(Get, "removeTrack"), tracks[i].id), TRUE))

UpdateTrackBeats(i, beats) ==
  Put(commitEdit(Get, updateTrackBeats(Begin(Get, "updateTrackBeats"),
                                       tracks[i].id, beats), TRUE))

UpdateTrackVolume(i, volume) ==
  Put(commitEdit(Get, updateTrackVolume(Begin(Get, "updateTrackVolume"),
                                        tracks[i].id, volume), TRUE))

ToggleMute(i) ==
  Put(commitEdit(Get, toggleMute(Begin(Get, "toggleMute"), tracks[i].id), TRUE))

ToggleDeafen(i) ==
  Put(commitEdit(Get, toggleDeafen(Begin(Get, "toggleDeafen"), tracks[i].id), TRUE))

ToggleDarkMode ==
  Put(commitEdit(Get, toggleDarkMode(Begin(Get, "toggleDarkMode")), FALSE))

\* an edit is open to the user while the run has edits left
CanEdit == edits < MaxEdits
CanAdd == Len(tracks) < MaxTracks

Next ==
  \/ TogglePlayStart
  \/ FinishStart
  \/ TogglePlayStop
  \/ Render
  \/ Tick
  \/ Visibility
  \/ \E d \in Steps : Advance(d)
  \/ \E ok \in BOOLEAN : ResumeSettled(ok)
  \/ \E t \in PlayTempoInputs : CanEdit /\ UpdateTempo(t)
  \/ CanEdit /\ CanAdd /\ AddTrack
  \/ \E i \in 1..Len(tracks) : CanEdit /\ RemoveTrack(i)
  \/ \E i \in 1..Len(tracks) : CanEdit /\ UpdateTrackBeats(i, whole(NewTrackBeats))
  \/ \E i \in 1..Len(tracks) : CanEdit /\ UpdateTrackVolume(i, 0)
  \/ \E i \in 1..Len(tracks) : CanEdit /\ ToggleMute(i)
  \/ \E i \in 1..Len(tracks) : CanEdit /\ ToggleDeafen(i)
  \/ CanEdit /\ ToggleDarkMode

Spec == Init /\ [][Next]_vars

(* ------------------------------------------------------------------ *)
(* The editor alone: the page opened on a link, then edited            *)
(* ------------------------------------------------------------------ *)
LinkDropsEntry == <<"#","t","r","a","c","k","s","=","4","|","x","|","3","m">>
LinkBothFlags == <<"#","t","r","a","c","k","s","=","4","m","d">>
LinkFocus == <<"#","t","r","a","c","k","s","=","3","d","|","4">>
LinkFull ==
  <<"#","t","h","e","m","e","=","l","i","g","h","t",";","t","=","1","2","0",";",
    "t","r","a","c","k","s","=","4","v","5","0","m","|","3">>
LinkZeroTempo == <<"#","t","=","0">>
LinkHighTempo == <<"#","t","=","5","0","0">>
LinkMalformed ==
  <<"#","t","r","a","c","k","s","=","4","v","7","5","|","3","v","7","5","x">>
LinkNoValid ==
  <<"#","t","h","e","m","e","=","l","i","g","h","t",";","t","=","1","2","0",";",
    "t","r","a","c","k","s","=","x","|","0">>
LinkEmptyTracks ==
  <<"#","t","h","e","m","e","=","l","i","g","h","t",";","t","r","a","c","k","s","=">>
Links ==
  {<<>>, LinkDropsEntry, LinkBothFlags, LinkFocus, LinkFull, LinkZeroTempo,
   LinkHighTempo, LinkMalformed, LinkNoValid, LinkEmptyTracks}

InitUI == \E link \in Links : InitFrom(link, FALSE)

CanEditUI == edits < MaxUIEdits

NextUI ==
  \/ \E t \in TempoInputs : CanEditUI /\ UpdateTempo(t)
  \/ CanEditUI /\ CanAdd /\ AddTrack
  \/ \E i \in 1..Len(tracks) : CanEditUI /\ RemoveTrack(i)
  \/ \E i \in 1..Len(tracks) : \E b \in BeatsInputs : CanEditUI /\ UpdateTrackBeats(i, b)
  \/ \E i \in 1..Len(tracks) : \E v \in VolumeInputs : CanEditUI /\ UpdateTrackVolume(i, v)
  \/ \E i \in 1..Len(tracks) : CanEditUI /\ ToggleMute(i)
  \/ \E i \in 1..Len(tracks) : CanEditUI /\ ToggleDeafen(i)
  \/ CanEditUI /\ ToggleDarkMode

SpecUI == InitUI /\ [][NextUI]_vars

(* ------------------------------------------------------------------ *)
(* The editor on a long track list: the pitch table wraps around        *)
(* ------------------------------------------------------------------ *)
\* edits in one run, and the longest list
MaxLongEdits == 2
MaxLongTracks == 9

LinkNested == <<"#","t","r","a","c","k","s","=","2","|","4">>
LinkLong ==
  <<"#","t","r","a","c","k","s","=","1","|","1","|","1","|","1","|","1","|","1",
    "|","1","|","1">>

InitLong == \E link \in {LinkLong, LinkDropsEntry} : InitFrom(link, FALSE)

CanEditLong == edits < MaxLongEdits

NextLong ==
  \/ CanEditLong /\ Len(tracks) < MaxLongTracks /\ AddTrack
  \/ \E i \in 1..Len(tracks) : CanEditLong /\ RemoveTrack(i)
  \/ \E i \in 1..Len(tracks) : \E b \in BeatsInputs : CanEditLong /\ UpdateTrackBeats(i, b)
  \/ \E i \in 1..Len(tracks) : \E v \in VolumeInputs : CanEditLong /\ UpdateTrackVolume(i, v)
  \/ \E i \in 1..Len(tracks) : CanEditLong /\ ToggleMute(i)
  \/ \E i \in 1..Len(tracks) : CanEditLong /\ ToggleDeafen(i)

SpecLong == InitLong /\ [][NextLong]_vars

(* ------------------------------------------------------------------ *)
(* Properties                                                           *)
(* ------------------------------------------------------------------ *)
\* the transport refs hold what stopAudioHard leaves in them
TransportReset ==
  /\ transportAnchorRef = NoAnchor
  /\ startTimeRef = 0
  /\ nextCycleRef = 0
  /\ scheduledUntilRef = 0
  /\ restartTransportRef = FALSE

\* track i is muted, or is not deafened while some track is deafened
Gated(i) ==
  \/ tracks[i].muted
  \/ ~tracks[i].deafened /\ \E j \in 1..Len(tracks) : tracks[j].deafened

StructuralOps == {"updateTempo", "updateTrackBeats", "addTrack", "removeTrack"}

\* C1: within one playback segment (from a start to the next stop or change
\* of tempo, beat count or membership) no (cycle, track, beat) triple is
\* handed to the engine a second time.
C1_EachTripleAtMostOnce == redispatched = {}

\* C2: a scheduler tick never leaves nextCycleRef below the value it had when
\* the tick began, realign ticks included.
C2_CycleIndexNeverDecreases == lastOp = "tick" => nextCycleRef >= cycleBeforeTick

\* C3: the resolver leaves a track its volume exactly when the track is not
\* gated out (deafened and not muted when some track is deafened, otherwise
\* not muted), and gives every other track volume 0.
C3_AudibleSetExact ==
  \A i \in 1..Len(tracks) :
    audibleTracksRef[i].volume = IF Gated(i) THEN 0 ELSE tracks[i].volume

\* C4: a beat that sounds with a gain above zero belongs to a track that is
\* not gated out, on either engine.
C4_GatedTracksSilent ==
  \A e \in sounded :
    e.gain > 0 =>
      \/ ~hasId(tracks, e.id)
      \/ \E i \in 1..Len(tracks) : tracks[i].id = e.id /\ ~Gated(i)

\* C5: no track is muted and deafened at once, in the state decoded from the
\* link and after every edit.
C5_MutedDeafenedExclusive ==
  \A i \in 1..Len(tracks) : ~(tracks[i].muted /\ tracks[i].deafened)

\* C6: when stopAudioHard has run (the stop click, or the catch of a failed
\* start) the anchor is unset, start time, cycle index and scheduled-until
\* are 0, the realign flag is false, the pending timer list is empty, the
\* gains are cleared and no context or keep-alive oscillator is retained.
C6_StopTearsDown ==
  lastOp \in {"stop", "startFailed"} =>
    /\ TransportReset
    /\ pendingHtmlTimersRef = <<>>
    /\ trackGainsRef = NoGains
    /\ audioContextRef = "none"
    /\ ~keepAliveRef

C6_Witness == lastOp = "stop" /\ ~useHtmlAudioEngine /\ now > StartTime

\* C7: from stopAudioHard to the end of the next togglePlay no operation hands
\* a beat to an engine and every transport field keeps its reset value.
C7_NothingAfterStop == stopped => batch = <<>> /\ TransportReset

\* C8: on the fallback engine, once stopAudioHard has run no timer is left in
\* the host's table and no clip plays, until the next togglePlay completes.
C8_TimersCancelledByStop ==
  (useHtmlAudioEngine /\ stopped) => timers = {} /\ sounded = {}

C8_Witness == lastOp = "stop" /\ useHtmlAudioEngine /\ cleared > 0

\* C9: a togglePlay whose context cannot be created or resumed on the
\* precision engine ends with playing false, the transport refs reset and
\* no context retained.
C9_FailedStartResets ==
  lastOp = "startFailed" =>
    /\ ~playing
    /\ TransportReset
    /\ audioContextRef = "none"
    /\ ~keepAliveRef

C9_Witness == lastOp = "startFailed" /\ ~useHtmlAudioEngine /\ ~playingRef

\* C10: after a change of tempo, of a track's beat count or of track
\* membership while playing, the anchor is unset and the cycle index and
\* scheduled-until are 0.
C10_TimingChangeResetsAnchor ==
  (lastOp \in StructuralOps /\ playingRef) =>
    /\ transportAnchorRef = NoAnchor
    /\ nextCycleRef = 0
    /\ scheduledUntilRef = 0

\* what a run of schedule leaves behind: the beats it handed over and the
\* position of the transport
Outcome(s) ==
  <<s.batch, s.startTimeRef, s.nextCycleRef, s.scheduledUntilRef, s.timers, s.clicks>>

Carried(ts) ==
  [i \in 1..Len(ts) |->
     <<ts[i].beatsPerCycle, ts[i].volume, ts[i].muted, ts[i].deafened>>]

\* C12: decoding the encoding of the current state yields the same tempo, the
\* same theme and a track list of the same length with the same beats,
\* volume, muted and deafened at every position.
C12_RoundTrip ==
  LET same(d) ==
        /\ d.valid
        /\ d.tempo = tempo
        /\ d.darkMode = darkMode
        /\ Carried(d.tracks) = Carried(tracks)
  IN  same(parseState(encodeState(tempo, tracks, darkMode), trackCounter))

\* C13: the default state (tempo 30, tracks of 4 and 3 beats at volume 0.75,
\* unmuted and un-deafened, dark theme) is encoded as the empty string, and
\* the empty string is decoded as exactly that state.
C13_DefaultIsEmptyString ==
  LET isDefault(d) ==
        /\ d.valid
        /\ d.tempo = whole(DEFAULT_TEMPO)
        /\ d.darkMode
        /\ d.tracks = DEFAULT_TRACKS
  IN  /\ (tempo = whole(DEFAULT_TEMPO) /\ darkMode
            /\ Carried(tracks) = Carried(DEFAULT_TRACKS))
          => encodeState(tempo, tracks, darkMode) = <<>>
      /\ hash = <<>> =>
            /\ isDefault(parseState(hash, trackCounter))
            /\ tempo = whole(DEFAULT_TEMPO) /\ darkMode
            /\ Carried(tracks) = Carried(DEFAULT_TRACKS)

C13_Witness == hash = <<>> /\ edits > 1 /\ lastOp = "updateTempo"

\* the link the page was opened on is t=<n>
TempoPrefix == <<"#", "t", "=">>
IsTempoLink(h) ==
  startsWith(h, TempoPrefix) /\ ~Number(slice(h, Len(TempoPrefix))).nan

\* C14: the page opened on t=<n> has the tempo min(240, max(1, n)).
C14_DecodedTempoClamped ==
  (lastOp = "mount" /\ IsTempoLink(loadedHash)) =>
    tempo = clampTempo(Number(slice(loadedHash, Len(TempoPrefix))).val)

\* the |-separated entries of the tracks field of a link, <<>> without one
TracksPrefix == <<"t","r","a","c","k","s","=">>
HasTracksField(h) ==
  \E i \in 1..Len(split(slice(h, 1), ";")) :
    startsWith(split(slice(h, 1), ";")[i], TracksPrefix)
TrackEntries(h) ==
  LET field(parts) ==
        parts[CHOOSE i \in 1..Len(parts) : startsWith(parts[i], TracksPrefix)]
  IN  IF HasTracksField(h)
      THEN split(slice(field(split(slice(h, 1), ";")), Len(TracksPrefix)), "|")
      ELSE <<>>

\* an entry reads digits[vdigits][m][d]: b digits, then v characters of volume
VolumeOf(p, b, v) == SubSeq(p, b + 2, b + v)
FlagsOf(p, b, v) == SubSeq(p, b + v + 1, Len(p))
Reads(p, b, v) ==
  /\ AllDigits(SubSeq(p, 1, b))
  /\ v = 0 \/ (v >= 2 /\ p[b + 1] = "v" /\ AllDigits(VolumeOf(p, b, v)))
  /\ FlagsOf(p, b, v) \in {<<>>, <<"m">>, <<"d">>, <<"m", "d">>}
ValidEntry(p) ==
  \E b \in 1..Len(p) : \E v \in 0..(Len(p) - b) :
    Reads(p, b, v) /\ DigitsValue(SubSeq(p, 1, b)) >= 1

\* the track an entry that reads as (b, v) stands for
ReadsAs(t, p, b, v) ==
  /\ t.beatsPerCycle = DigitsValue(SubSeq(p, 1, b))
  /\ t.volume = IF v = 0 THEN DEFAULT_VOLUME ELSE Min(100, DigitsValue(VolumeOf(p, b, v)))
  /\ t.muted = (\E k \in 1..Len(p) : p[k] = "m")
  /\ t.deafened = (\E k \in 1..Len(p) : p[k] = "d")

\* C15: the page opened on a link whose tracks field has a valid entry holds
\* exactly the valid entries, in their order, each with the beats, volume and
\* flags it spells.
C15_ValidEntriesKept ==
  LET kept(es) ==
        /\ Len(tracks) = Cardinality({i \in 1..Len(es) : ValidEntry(es[i])})
        /\ \A i \in 1..Len(tracks) :
             /\ tracks[i].id \in 1..Len(es)
             /\ \A j \in 1..(i - 1) : tracks[j].id < tracks[i].id
             /\ \E b \in 1..Len(es[tracks[i].id]) :
                  \E v \in 0..(Len(es[tracks[i].id]) - b) :
                    /\ Reads(es[tracks[i].id], b, v)
                    /\ ReadsAs(tracks[i], es[tracks[i].id], b, v)
      some(es) == (\E i \in 1..Len(es) : ValidEntry(es[i])) => kept(es)
  IN  lastOp = "mount" => some(TrackEntries(loadedHash))

C15_Witness ==
  lastOp = "mount" /\ loadedHash = LinkMalformed /\ Len(tracks) = 1

\* C16: the page opened on a link that has a tracks field with no valid entry
\* starts from the default tempo, the default tracks and the default theme.
C16_NoValidEntryFallsBack ==
  LET none(es) == es # <<>> /\ \A i \in 1..Len(es) : ~ValidEntry(es[i])
  IN  (lastOp = "mount" /\ none(TrackEntries(loadedHash))) =>
        /\ tempo = whole(DEFAULT_TEMPO)
        /\ darkMode
        /\ Carried(tracks) = Carried(DEFAULT_TRACKS)

\* the handlers that change the tempo or the track list
EditOps ==
  {"updateTempo", "addTrack", "removeTrack", "updateTrackBeats",
   "updateTrackVolume", "toggleMute", "toggleDeafen"}

\* C17: a change of the tempo or of the track list made while playback is
\* stopped leaves the anchor, start time, cycle index, scheduled-until mark,
\* realign flag, pending timers, gains and audio context as they were and
\* hands no beat to an engine.
C17_EditWhileStoppedKeepsTransport ==
  [][(lastOp' \in EditOps /\ ~playingRef) =>
       /\ UNCHANGED <<transportAnchorRef, startTimeRef, nextCycleRef,
                      scheduledUntilRef, restartTransportRef,
                      pendingHtmlTimersRef, timers, trackGainsRef, clicks,
                      audioContextRef, keepAliveRef>>
       /\ batch' = <<>>]_vars

C17_Witness ==
  lastOp = "updateTempo" /\ ~playingRef /\ ~playing /\ stopped /\ TransportReset

C19_BeatsAndVolumeInRange ==
  \A i \in 1..Len(tracks) :
    /\ tracks[i].beatsPerCycle \in Nat
    /\ tracks[i].beatsPerCycle >= 1
    /\ tracks[i].volume >= 0
    /\ tracks[i].volume <= 100

C19_Witness ==
  /\ lastOp = "updateTrackBeats"
  /\ \E i \in 1..Len(tracks) : tracks[i].beatsPerCycle = 1 /\ tracks[i].volume = 0
  /\ \E i \in 1..Len(tracks) : tracks[i].beatsPerCycle = round(whole(2) + 1)

\* C20: the track at position i of the list (counted from 0) has pitchIndex
\* i mod 8.
C20_PitchFollowsPosition ==
  \A i \in 1..Len(tracks) : tracks[i].pitchIndex = (i - 1) % PitchTableSize

C20_Witness ==
  /\ lastOp = "addTrack"
  /\ Len(tracks) > PitchTableSize
  /\ tracks[Len(tracks)].pitchIndex = 0

\* the instant the transport assigns to beat k of cycle c of a track of n
\* beats, times n: anchor + c * (60 / t) + k * (60 / t) / n
gridInstant(e) ==
  (transportAnchorRef + e.cycle * cycleDuration(tempo)) * e.den
    + cycleDuration(tempo) * e.beat

\* C21: every beat k of cycle c of a track of n beats is dispatched with the
\* instant anchor + c * (60 / t) + k * (60 / t) / n, exactly on the precision
\* engine and within half a millisecond on the fallback engine, the first
\* cycle dispatched by a start included; and beat 0 is the one accented beat
C21_BeatsOnGrid ==
  \A i \in 1..Len(batch) :
    /\ batch[i].accent <=> (batch[i].beat = 0)
    /\ IF useHtmlAudioEngine
       THEN 2 * Abs(batch[i].num - gridInstant(batch[i])) <= batch[i].den
       ELSE batch[i].num = gridInstant(batch[i])

\* C22: every beat event a run of the scheduler materializes has an instant
\* earlier than now + the lookahead window
C22_BeatsInsideLookahead ==
  (lastOp \in {"tick", "render"}) =>
    \A i \in 1..Len(batch) :
      batch[i].num < (now + scheduleAhead) * batch[i].den

\* C23: while playing the scheduled-until mark never decreases from one state
\* to the next, until stop
C23_ScheduledUntilMonotone ==
  [][(playingRef /\ playingRef') => scheduledUntilRef' >= scheduledUntilRef]_vars

\* the engine can dispatch: the fallback engine, or a running context
EngineReady == ~cancelled /\ (useHtmlAudioEngine \/ audioContextRef = "running")

\* whether the coming tick realigns before its loop
RealignDue == restartTransportRef \/ startTimeRef = 0

\* the index and the start of the cycle the coming tick examines first
firstCycleIndex ==
  IF RealignDue
  THEN Max(0, Max(0, now - transportAnchorRef) \div cycleDurationRef)
  ELSE nextCycleRef

firstCycleStart ==
  (IF RealignDue THEN transportAnchorRef ELSE startTimeRef)
    + firstCycleIndex * cycleDurationRef

\* the coming tick enters its loop and finds that cycle's start stale
NextCycleStale ==
  /\ RealignDue \/ scheduledUntilRef < now + scheduleAhead
  /\ firstCycleStart < now - StaleTolerance

\* C24: no run of the scheduler dispatches a beat event with an instant more
\* than the staleness tolerance before the time of dispatch; a tick that finds
\* its next cycle start stale emits no beat, leaves the cycle index on that
\* cycle and sets the realign flag
C24_StaleCycleAborts ==
  [][/\ (lastOp' \in {"tick", "render"}) =>
          \A i \in 1..Len(batch') :
            batch'[i].num >= (now' - StaleTolerance) * batch'[i].den
     /\ (lastOp' = "tick" /\ EngineReady /\ transportAnchorRef # NoAnchor
           /\ NextCycleStale) =>
          /\ batch' = <<>>
          /\ nextCycleRef' = firstCycleIndex
          /\ restartTransportRef']_vars

C24_Witness ==
  /\ lastOp = "tick" /\ EngineReady /\ playingRef
  /\ restartTransportRef /\ batch = <<>>
  /\ startTimeRef + nextCycleRef * cycleDurationRef < now - StaleTolerance

\* C25: toggleMute leaves every track it toggles with deafened = false, and
\* toggleDeafen leaves every track it toggles with muted = false
C25_TogglesClearTheOtherFlag ==
  [][/\ (lastOp' = "toggleMute") =>
          \A i \in 1..Len(tracks) :
            (tracks'[i].muted # tracks[i].muted) => ~tracks'[i].deafened
     /\ (lastOp' = "toggleDeafen") =>
          \A i \in 1..Len(tracks) :
            (tracks'[i].deafened # tracks[i].deafened) => ~tracks'[i].muted]_vars

C25_Witness ==
  /\ loadedHash = LinkBothFlags /\ lastOp = "toggleMute" /\ edits = 1
  /\ ~tracks[1].muted /\ ~tracks[1].deafened

\* C29: once set, the anchor instant changes only by a stop (the stop button
\* or a failed start): ticks, visibility events, stale-cycle realignments and
\* mute, deafen and volume changes leave it as it is
C29_AnchorFixed ==
  [][(transportAnchorRef # NoAnchor /\ lastOp' \notin {"stop", "startFailed"}) =>
       transportAnchorRef' = transportAnchorRef]_vars

C29_Witness ==
  /\ lastOp = "tick" /\ EngineReady /\ playingRef /\ restartTransportRef
  /\ transportAnchorRef = StartTime + AnchorMargin
  /\ now >= StartTime + StaleTolerance + tickMs

\* the timing effect has reset the transport while playing and no run of the
\* scheduler has realigned it since
TimingChangePending == playingRef /\ restartTransportRef /\ startTimeRef = 0

\* C27: after a tempo or beat-count change while playing, the first tick that
\* finds the engine ready dispatches beat events at the new timing
C27_ChangeHeardAtNextTick ==
  [][(lastOp' = "tick" /\ TimingChangePending /\ EngineReady
        /\ audibleTracksRef # <<>>) => batch' # <<>>]_vars

(* ------------------------------------------------------------------ *)
(* The display while playing                                            *)
(* ------------------------------------------------------------------ *)
NextDisplay ==
  \/ TogglePlayStart
  \/ FinishStart
  \/ TogglePlayStop
  \/ Render
  \/ Tick
  \/ Frame
  \/ \E d \in Steps : Advance(d)
  \/ \E ok \in BOOLEAN : ResumeSettled(ok)
  \/ \E t \in PlayTempoInputs : CanEdit /\ UpdateTempo(t)

SpecDisplay == Init /\ [][NextDisplay]_vars

\* C30: a run of the display progress loop leaves the anchor, the start time,
\* the cycle index, the scheduled-until mark, the realign flag and the pending
\* timers as they were, and the phase it derives and writes lies in [0, 1)
C30_ProgressLoopOnlyReads ==
  [][(lastOp' = "frame") =>
       /\ UNCHANGED << transportAnchorRef, startTimeRef, nextCycleRef,
                       scheduledUntilRef, restartTransportRef,
                       pendingHtmlTimersRef, timers >>
       /\ 0 <= position(Get) /\ position(Get) < ProgressScale
       /\ 0 <= lastCssProgressRef' /\ lastCssProgressRef' < ProgressScale]_vars

C30_Witness ==
  /\ lastOp = "frame" /\ playingRef /\ snapBeats
  /\ lastCssProgressRef > 0 /\ nextCycleRef > 0

(* ------------------------------------------------------------------ *)
(* A session of regular ticks                                           *)
(* ------------------------------------------------------------------ *)
\* the session ends at MaxTickTime
MaxTickTime == 4500

\* the delay a render can take, and the time the host can stay suspended
Delays == {10}
Gaps == {92 * tickMs}

InitTicks == \E link \in {<<>>, LinkHighTempo, LinkNested} : \E engine \in BOOLEAN :
               InitFrom(link, engine)

\* time passes before the interval exists
Settle(d) ==
  /\ ~interval
  /\ now = StartTime
  /\ Put(advance(Begin(Get, "advance"), d))

\* the interval can fire one period after its last run
TickDue == interval /\ now + tickMs <= MaxTickTime

\* the interval fires one period after its last run
RegularTick ==
  /\ TickDue
  /\ Put([schedule(advance(Begin(Get, "tick"), tickMs)) EXCEPT
            !.cycleBeforeTick = nextCycleRef])

\* the host is suspended for d: no callback runs; a whole cycle of regular
\* ticks fits in the session after it
Gap(d) ==
  /\ interval
  /\ now + d + cycleDurationRef + tickMs <= MaxTickTime
  /\ Put(advance(Begin(Get, "advance"), d))

NextTicks ==
  \/ starts = 0 /\ TogglePlayStart
  \/ FinishStart
  \/ Render
  \/ RegularTick
  \/ \E d \in Delays : Settle(d)
  \/ \E d \in Gaps : Gap(d)

\* the steps of RegularTick, by what they do to the clock
TickStep == TickDue /\ lastOp' = "tick" /\ now' = now + tickMs

\* setInterval keeps firing while the interval exists
SpecTicks == InitTicks /\ [][NextTicks]_vars /\ WF_now(TickStep)

\* a tick has just aborted on a stale cycle
StaleAbort ==
  lastOp = "tick" /\ interval /\ playingRef /\ EngineReady /\ restartTransportRef

BeatsDispatched == lastOp = "tick" /\ batch # <<>>

\* C26: once regular ticks resume after a gap that left the next cycle stale,
\* the scheduler eventually dispatches beat events again
C26_ResumesAfterGap == StaleAbort ~> BeatsDispatched

C26_Witness ==
  /\ BeatsDispatched /\ playingRef
  /\ batch[1].cycle > cycleBeforeTick

\* C28: a regular tick with no realign and no stale cycle dispatches the cycles
\* with the consecutive indices from the index it found, and leaves no cycle
\* undispatched whose start anchor + c * cycleDuration is before now + lookahead
C28_NoCycleLeftBehind ==
  [][(lastOp' = "tick" /\ playingRef /\ EngineReady /\ ~RealignDue
        /\ ~restartTransportRef') =>
       /\ {batch'[i].cycle : i \in 1..Len(batch')} = nextCycleRef..(nextCycleRef' - 1)
       /\ startTimeRef' + nextCycleRef' * cycleDurationRef' >= now' + scheduleAhead]_vars

\* C31: a tick on the precision engine that finds no context, or a context
\* that is not running, dispatches no event and leaves the anchor, the start
\* time, the cycle index, the scheduled-until mark, the realign flag and the
\* context as they were
C31_TickWithoutRunningContext ==
  [][(lastOp' = "tick" /\ ~useHtmlAudioEngine /\ audioContextRef # "running") =>
       /\ batch' = <<>>
       /\ UNCHANGED << transportAnchorRef, startTimeRef, nextCycleRef,
                       scheduledUntilRef, restartTransportRef,
                       audioContextRef, keepAliveRef, ctxResuming >>]_vars

C31_Witness ==
  /\ lastOp = "tick" /\ ~useHtmlAudioEngine /\ playingRef /\ ~cancelled
  /\ audioContextRef = "suspended" /\ restartTransportRef
  /\ transportAnchorRef # NoAnchor

\* C32: within one dispatched cycle the beat events of a track are handed to
\* the engine in increasing beat order
C32_BeatOrderWithinCycle ==
  \A i, j \in 1..Len(batch) :
    (i < j /\ batch[i].cycle = batch[j].cycle /\ batch[i].pos = batch[j].pos) =>
      batch[i].beat < batch[j].beat

\* the peak gain of a click in the older variant, in 1 / 10000 per volume
\* percent: (0.18 + accentBoost) * volume, without the smoothness factor,
\* which lies strictly between 0 and 1
peakFiltered(volume, accent) == (IF accent THEN 53 ELSE 33) * volume

\* the gain a beat of the track at position i sounds with in steady state
steadyGain(ts, i, accent, html) ==
  IF html THEN htmlGain(lastWithId(audibleTracks(ts), ts[i].id).volume, accent)
  ELSE preamped(lastWithId(audibleTracks(ts), ts[i].id).volume)

\* the (track id, beat) events that sound with a gain above zero in one cycle:
\* every track is scheduled and sounds through the gain of its id
soundsGated(ts, html) ==
  UNION {{<<ts[i].id, k>> : k \in {b \in 0..(ts[i].beatsPerCycle - 1) :
                                     steadyGain(ts, i, b = 0, html) > 0}} :
         i \in 1..Len(ts)}

\* the same for the older variant: the tracks the resolver keeps are scheduled
\* at their own volume
soundsFiltered(ts) ==
  LET kept == audibleTracksFiltered(ts)
  IN  UNION {{<<kept[i].id, k>> : k \in {b \in 0..(kept[i].beatsPerCycle - 1) :
                                           peakFiltered(kept[i].volume, b = 0) > 0}} :
             i \in 1..Len(kept)}

\* C33: for every track list, the gain-gating variant and the membership-filter
\* variant sound the same (track, beat) events with a gain above zero in a cycle
C33_VariantsSoundTheSame ==
  soundsGated(tracks, useHtmlAudioEngine) = soundsFiltered(tracks)

\* C34: no two tracks of the list share an id, after decoding any link and
\* after every edit and the render it causes
C34_TrackIdsDistinct ==
  \A i, j \in 1..Len(tracks) : i # j => tracks[i].id # tracks[j].id

\* the fields of a track an operation on another track must keep
core(t) == << t.id, t.beatsPerCycle, t.volume, t.muted, t.deafened >>

\* the list without its element at position i
without(ts, i) == [j \in 1..(Len(ts) - 1) |-> IF j < i THEN ts[j] ELSE ts[j + 1]]

PerTrackUpdates ==
  {"toggleMute", "toggleDeafen", "updateTrackBeats", "updateTrackVolume"}

\* C35: a per-track operation invoked for one track leaves every other track
\* with its id, beats, volume, muted and deafened values and in its relative
\* order: an update changes at most one track of the list, and removeTrack
\* takes exactly one track out of it
C35_OnlyTheTargetTrackChanges ==
  [][/\ (lastOp' \in PerTrackUpdates) =>
          /\ Len(tracks') = Len(tracks)
          /\ \A i, j \in 1..Len(tracks) :
               (core(tracks'[i]) # core(tracks[i])
                  /\ core(tracks'[j]) # core(tracks[j])) => i = j
     /\ (lastOp' = "removeTrack") =>
          \E i \in 1..Len(tracks) :
            /\ Len(tracks') = Len(tracks) - 1
            /\ \A j \in 1..Len(tracks') :
                 core(tracks'[j]) = core(without(tracks, i)[j])]_vars

\* C36: a togglePlay that was invoked while an earlier start was still
\* awaiting, and that completes after that start has begun the session,
\* dispatches no beat: the first cycle is not handed over a second time
\* against the anchor the first invocation set
C36_SecondStartDispatchesNothing ==
  [][(lastOp' = "start" /\ playing /\ transportAnchorRef # NoAnchor) =>
       batch' = <<>>]_vars

\* the beats of one cycle, over all scheduled tracks
RECURSIVE beatsPerCycleTotal(_)
beatsPerCycleTotal(ts) ==
  IF ts = <<>> THEN 0 ELSE ts[1].beatsPerCycle + beatsPerCycleTotal(Tail(ts))

\* the beat events of the cycles that can overlap the lookahead window: the
\* cycles that start in it, the one running when it opens and one more
horizonEvents ==
  (scheduleAhead \div cycleDurationRef + 2) * beatsPerCycleTotal(audibleTracksRef)

\* C37: on the fallback engine the pending-timer list never holds more handles
\* than there are beat events within the lookahead horizon, however many
\* cycles have been played
C37_PendingTimersBounded ==
  useHtmlAudioEngine => Len(pendingHtmlTimersRef) <= horizonEvents

\* C38: while playback runs with the realign flag clear, the scheduled-until
\* mark is start time + cycle index * cycle duration, after a start and after
\* every tick, on both engines
C38_MarkIsEndOfLastCycle ==
  (playing /\ ~restartTransportRef) =>
    scheduledUntilRef = startTimeRef + nextCycleRef * cycleDurationRef

(* ------------------------------------------------------------------ *)
(* The rebuild-on-change variants of the scheduler effect              *)
(* ------------------------------------------------------------------ *)
\* const scheduleAhead = 0.7, startAt = ctx.currentTime + 0.05
rebuildAhead == 700
rebuildLead == 50

MaxRebuildTime == 1200
RebuildTempoInputs == {whole(120), whole(240)}
RebuildVolumeInputs == {40}

\* setInterval(schedule, 40) in the suspending variant, 25 in the closing one
period(v) == IF v = "suspend" THEN 40 ELSE 25

\* ctx.state === "running": a suspend() that has not taken effect yet still
\* reads as running
readsRunning(s) == s.audioContextRef \in {"running", "suspending"}

\* schedule of the variants: whole cycles while they start inside the lookahead
RECURSIVE scheduleAheadLoop(_)
scheduleAheadLoop(s) ==
  LET dur == cycleDuration(s.tempo)
      cycleStart == s.startTimeRef + s.nextCycleRef * dur
  IN  IF cycleStart < s.currentTime + rebuildAhead
      THEN scheduleAheadLoop(
             [noteDispatch(s, cycleBeats(audibleTracksFiltered(s.tracks), 1,
                                         s.nextCycleRef, cycleStart, dur))
                EXCEPT !.nextCycleRef = @ + 1])
      ELSE s

\* resetAudioContext: the context is closed and forgotten
resetAudioContext(s) ==
  [s EXCEPT !.keepAliveRef = FALSE, !.audioContextRef = "none",
            !.currentTime = 0, !.startTimeRef = 0, !.nextCycleRef = 0]

\* cleanup of the scheduler effect: the suspending variant suspends the context
\* its setup took (there is one when the interval exists) if it reads running,
\* the closing variant closes whatever context there is
rebuildCleanup(s) ==
  LET s1 == [s EXCEPT !.cancelled = TRUE, !.interval = FALSE, !.ctxResuming = FALSE]
  IN  IF s.variant = "suspend"
      THEN [s1 EXCEPT !.startTimeRef = 0, !.nextCycleRef = 0,
                      !.audioContextRef = IF s.interval /\ readsRunning(s)
                                          THEN "suspending" ELSE @]
      ELSE resetAudioContext(s1)

\* setup from the anchor on: startAt, cycle 0 and the interval
rebuildAnchor(s) ==
  [NewSegment(s) EXCEPT !.cancelled = FALSE,
                        !.startTimeRef = s.currentTime + rebuildLead,
                        !.nextCycleRef = 0,
                        !.interval = TRUE]

\* setup of the scheduler effect: an open context is taken as it is, otherwise
\* ensureAudioRunning makes one and setup waits for its resume()
rebuildSetup(s) ==
  IF ~s.playing THEN s
  ELSE IF s.audioContextRef # "none" THEN rebuildAnchor(s)
  ELSE [s EXCEPT !.audioContextRef = "suspended", !.currentTime = 0,
                 !.cancelled = FALSE, !.ctxResuming = TRUE]

\* a dependency of the effect changed: cleanup, then setup
rebuild(s) == rebuildSetup(rebuildCleanup(s))

\* the play button while stopped: ensureAudioRunning inside the gesture, then
\* setPlaying(true) and the effect
rebuildStart(s) ==
  LET ctx == IF s.audioContextRef = "none"
             THEN [s EXCEPT !.currentTime = 0, !.audioContextRef = "running"]
             ELSE IF readsRunning(s) THEN s
             ELSE [s EXCEPT !.audioContextRef = "running"]
  IN  rebuild([ctx EXCEPT !.playing = TRUE, !.starts = @ + 1,
                          !.keepAliveRef = (s.variant = "close")])

\* the play button while playing
rebuildStop(s) ==
  IF s.variant = "suspend"
  THEN rebuildCleanup([s EXCEPT !.playing = FALSE])
  ELSE rebuildCleanup(resetAudioContext([s EXCEPT !.playing = FALSE]))

\* the awaited resume() of setup settles; outside a gesture the host may refuse
rebuildResumed(s, ok) ==
  LET ctx == IF ok THEN [s EXCEPT !.audioContextRef = "running", !.keepAliveRef = TRUE]
             ELSE s
  IN  rebuildAnchor([ctx EXCEPT !.ctxResuming = FALSE])

\* a period passes on the host clock, and on the audio clock of a running
\* context; the interval, where there is one, runs schedule
rebuildTick(s) ==
  LET later == [s EXCEPT !.now = @ + period(s.variant),
                         !.currentTime = IF s.audioContextRef = "running"
                                         THEN @ + period(s.variant) ELSE @]
  IN  IF s.interval THEN scheduleAheadLoop(later) ELSE later

InitRebuild ==
  \E v \in {"suspend", "close"} :
    Holds([mount(LinkHighTempo, FALSE) EXCEPT !.variant = v])

\* a change needs room on the clock for the cycle after the first lookahead
RoomFor(t) == now + cycleDuration(t) + 3 * period(variant) <= MaxRebuildTime

RebuildStart ==
  /\ ~playing /\ starts < MaxStarts /\ RoomFor(tempo)
  /\ Put(rebuildStart(Begin(Get, "start")))

RebuildStop ==
  /\ playing
  /\ Put(rebuildStop(Begin(Get, "stop")))

RebuildTempo(t) ==
  /\ edits < MaxEdits /\ t # tempo /\ RoomFor(t)
  /\ Put(rebuild([Begin(Get, "edit") EXCEPT !.tempo = t, !.edits = @ + 1]))

RebuildVolume(i, v) ==
  /\ edits < MaxEdits /\ i \in 1..Len(tracks) /\ tracks[i].volume # v /\ RoomFor(tempo)
  /\ Put(rebuild([Begin(Get, "edit") EXCEPT !.tracks[i].volume = v, !.edits = @ + 1]))

RebuildMute(i) ==
  /\ edits < MaxEdits /\ i \in 1..Len(tracks) /\ RoomFor(tempo)
  /\ Put(rebuild([Begin(Get, "edit") EXCEPT !.tracks[i].muted = ~@,
                                             !.tracks[i].deafened = FALSE,
                                             !.edits = @ + 1]))

SuspendSettled ==
  /\ audioContextRef = "suspending"
  /\ Put([Begin(Get, "suspended") EXCEPT !.audioContextRef = "suspended"])

RebuildResumed ==
  /\ ctxResuming
  /\ \E ok \in BOOLEAN : Put(rebuildResumed(Begin(Get, "resumed"), ok))

\* suspend() and resume() settle before the next timer
TickReady ==
  /\ ~ctxResuming /\ audioContextRef # "suspending"
  /\ now + period(variant) <= MaxRebuildTime

RebuildTick ==
  /\ TickReady
  /\ Put(rebuildTick(Begin(Get, "tick")))

NextRebuild ==
  \/ RebuildStart
  \/ RebuildStop
  \/ \E t \in RebuildTempoInputs : RebuildTempo(t)
  \/ \E v \in RebuildVolumeInputs : RebuildVolume(1, v)
  \/ RebuildMute(2)
  \/ SuspendSettled
  \/ RebuildResumed
  \/ RebuildTick

\* the steps of the three host actions, by what they do to one variable
RebuildTickStep == TickReady /\ lastOp' = "tick" /\ now' = now + period(variant)
SuspendStep == audioContextRef = "suspending" /\ audioContextRef' = "suspended"
ResumeStep == ctxResuming /\ lastOp' = "resumed" /\ ctxResuming' = FALSE

\* timers keep firing, and suspend() and resume() settle
SpecRebuild ==
  /\ InitRebuild /\ [][NextRebuild]_vars
  /\ WF_now(RebuildTickStep)
  /\ WF_audioContextRef(SuspendStep)
  /\ WF_ctxResuming(ResumeStep)

\* the scheduler was rebuilt by a change while playing
Rebuilt == lastOp = "edit" /\ playing

\* a tick hands over a cycle once the audio clock has passed the anchor
LaterCycleDispatched ==
  /\ lastOp = "tick" /\ batch # <<>> /\ playing
  /\ audioContextRef = "running" /\ currentTime >= startTimeRef

\* C39: in the rebuild-on-change variants, after a tempo or track change while
\* playing, the scheduler restarts at cycle 0 from a fresh anchor and, unless
\* the user stops, a later cycle is eventually dispatched against an audio
\* clock that has advanced past the anchor, without a new start
C39_PlaybackContinuesAfterRebuild ==
  /\ [](Rebuilt => nextCycleRef = 0 /\ (interval => startTimeRef = currentTime + rebuildLead))
  /\ (Rebuilt ~> (~playing \/ LaterCycleDispatched))

=============================================================================
